---- MODULE Spec2Model ----
(***************************************************************************)
(* Model of the census linear-model notebook                               *)
(* (TensorFlow-Linear-Model-Tutorial.ipynb): the input pipeline built by   *)
(* input_fn (TextLineDataset -> shuffle -> parallel map of parse_csv),     *)
(* the feature columns it declares (vocabulary list, hash bucket,          *)
(* bucketized, crossed), and the LinearClassifier that is trained and      *)
(* evaluated on them.                                                      *)
(*                                                                         *)
(* Text is modelled character by character: a string is a sequence of      *)
(* one-character strings, so that splitting, numeric conversion, exact     *)
(* comparison and hashing are computed rather than assumed.                *)
(***************************************************************************)
EXTENDS Integers, Sequences, FiniteSets, TLC

VARIABLES
  line,        \* parse_csv: the text line handed to one call (value)
  parsed,      \* parse_csv: what that call returned
  columns,     \* the declared feature columns handed to the model
  features,    \* the features dict of the record being transformed
  output,      \* what the feature-column transform produced for it
  calls,       \* the (features, ids) pairs of the transforms done so far
  file,        \* input_fn: the lines of data_file
  order,       \* input_fn: the order in which the lines are read
  nextLine,    \* dataset.map: position of the next line to hand out
  workers,     \* dataset.map: the invocations of parse_csv, by position
  emitted,     \* dataset.map: the elements delivered downstream, in order
  config,      \* input_fn: num_epochs, shuffle and batch_size
  epoch,       \* dataset.repeat: the iteration over the file under way
  batches,     \* dataset.batch: the batches handed to the iterator
  weights,     \* LinearClassifier: one coefficient per feature slot
  bias,        \* LinearClassifier: the bias term
  lastOp,      \* the estimator call that ran last
  metrics,     \* result of the last model.evaluate / score
  steps        \* number of estimator calls made so far

vars == <<line, parsed, columns, features, output, calls, file, order,
          nextLine, workers, emitted, config, epoch, batches, weights,
          bias, lastOp, metrics, steps>>

parseVars == <<line, parsed>>
columnVars == <<columns, features, output, calls>>
mapVars == <<file, order, nextLine, workers, emitted, config, epoch, batches>>
modelVars == <<weights, bias, lastOp, metrics, steps>>

-----------------------------------------------------------------------------
(* Text *)

Alphabet ==
  <<"0", "1", "2", "3", "4", "5", "6", "7", "8", "9",
    "A", "B", "C", "D", "E", "F", "G", "H", "I", "J", "K", "L", "M",
    "N", "O", "P", "Q", "R", "S", "T", "U", "V", "W", "X", "Y", "Z",
    "a", "b", "c", "d", "e", "f", "g", "h", "i", "j", "k", "l", "m",
    "n", "o", "p", "q", "r", "s", "t", "u", "v", "w", "x", "y", "z",
    "-", ">", "<", "=", "?", ",", " ">>

Ord(c) == CHOOSE i \in 1..Len(Alphabet) : Alphabet[i] = c

Digits == {"0", "1", "2", "3", "4", "5", "6", "7", "8", "9"}

DigitVal(c) == Ord(c) - 1

Delimiter == ","

EmptyStr == <<>>

\* strings that occur in the data and in the declarations
s17 == <<"1", "7">>
s18 == <<"1", "8">>
s24 == <<"2", "4">>
s25 == <<"2", "5">>
s29 == <<"2", "9">>
s30 == <<"3", "0">>
s39 == <<"3", "9">>
s65 == <<"6", "5">>
s0 == <<"0">>
s13 == <<"1", "3">>
s40 == <<"4", "0">>
s2174 == <<"2", "1", "7", "4">>
s77516 == <<"7", "7", "5", "1", "6">>
sXL == <<"X", "L">>
sOver50K == <<">", "5", "0", "K">>
sUnder50K == <<"<", "=", "5", "0", "K">>
sOver50k == <<">", "5", "0", "k">>
sBachelors == <<"B", "a", "c", "h", "e", "l", "o", "r", "s">>
sbachelors == <<"b", "a", "c", "h", "e", "l", "o", "r", "s">>
sMasters == <<"M", "a", "s", "t", "e", "r", "s">>
sHSgrad == <<"H", "S", "-", "g", "r", "a", "d">>
sHusband == <<"H", "u", "s", "b", "a", "n", "d">>
shusband == <<"h", "u", "s", "b", "a", "n", "d">>
sWife == <<"W", "i", "f", "e">>
sOwnChild == <<"O", "w", "n", "-", "c", "h", "i", "l", "d">>
sPrivate == <<"P", "r", "i", "v", "a", "t", "e">>
sStateGov == <<"S", "t", "a", "t", "e", "-", "g", "o", "v">>
sDivorced == <<"D", "i", "v", "o", "r", "c", "e", "d">>
sSales == <<"S", "a", "l", "e", "s">>
sTech == <<"T", "e", "c", "h">>
sWhite == <<"W", "h", "i", "t", "e">>
sBlack == <<"B", "l", "a", "c", "k">>
sMale == <<"M", "a", "l", "e">>
sCuba == <<"C", "u", "b", "a">>
sNotInFamily == <<"N", "o", "t", "-", "i", "n", "-", "f", "a", "m", "i", "l", "y">>
sUnmarried == <<"U", "n", "m", "a", "r", "r", "i", "e", "d">>
sOtherRelative == <<"O", "t", "h", "e", "r", "-", "r", "e", "l", "a", "t", "i", "v", "e">>
s_11th == <<"1", "1", "t", "h">>
s_9th == <<"9", "t", "h">>
sSomeCollege == <<"S", "o", "m", "e", "-", "c", "o", "l", "l", "e", "g", "e">>
sAssocAcdm == <<"A", "s", "s", "o", "c", "-", "a", "c", "d", "m">>
sAssocVoc == <<"A", "s", "s", "o", "c", "-", "v", "o", "c">>
s_7th8th == <<"7", "t", "h", "-", "8", "t", "h">>
sDoctorate == <<"D", "o", "c", "t", "o", "r", "a", "t", "e">>
sProfSchool == <<"P", "r", "o", "f", "-", "s", "c", "h", "o", "o", "l">>
s_5th6th == <<"5", "t", "h", "-", "6", "t", "h">>
s_10th == <<"1", "0", "t", "h">>
s_1st4th == <<"1", "s", "t", "-", "4", "t", "h">>
sPreschool == <<"P", "r", "e", "s", "c", "h", "o", "o", "l">>
s_12th == <<"1", "2", "t", "h">>
sMarriedCivSpouse == <<"M", "a", "r", "r", "i", "e", "d", "-", "c", "i", "v", "-", "s", "p", "o", "u", "s", "e">>
sMarriedSpouseAbsent == <<"M", "a", "r", "r", "i", "e", "d", "-", "s", "p", "o", "u", "s", "e", "-", "a", "b", "s", "e", "n", "t">>
sNeverMarried == <<"N", "e", "v", "e", "r", "-", "m", "a", "r", "r", "i", "e", "d">>
sSeparated == <<"S", "e", "p", "a", "r", "a", "t", "e", "d">>
sMarriedAFSpouse == <<"M", "a", "r", "r", "i", "e", "d", "-", "A", "F", "-", "s", "p", "o", "u", "s", "e">>
sWidowed == <<"W", "i", "d", "o", "w", "e", "d">>
sSelfEmpNotInc == <<"S", "e", "l", "f", "-", "e", "m", "p", "-", "n", "o", "t", "-", "i", "n", "c">>
sFederalGov == <<"F", "e", "d", "e", "r", "a", "l", "-", "g", "o", "v">>
sLocalGov == <<"L", "o", "c", "a", "l", "-", "g", "o", "v">>
sQuestion == <<"?">>
sSelfEmpInc == <<"S", "e", "l", "f", "-", "e", "m", "p", "-", "i", "n", "c">>
sWithoutPay == <<"W", "i", "t", "h", "o", "u", "t", "-", "p", "a", "y">>
sNeverWorked == <<"N", "e", "v", "e", "r", "-", "w", "o", "r", "k", "e", "d">>

-----------------------------------------------------------------------------
(* input_fn / parse_csv *)

\* column names and defaults of the csv reader, in file order
CSV_COLUMNS ==
  <<"age", "workclass", "fnlwgt", "education", "education_num",
    "marital_status", "occupation", "relationship", "race", "gender",
    "capital_gain", "capital_loss", "hours_per_week", "native_country",
    "income_bracket">>

\* a number default makes the column numeric, a string default a string
CSV_COLUMN_DEFAULTS ==
  <<0, EmptyStr, 0, EmptyStr, 0, EmptyStr, EmptyStr, EmptyStr, EmptyStr,
    EmptyStr, 0, 0, 0, EmptyStr, EmptyStr>>

NumericColumns ==
  {"age", "fnlwgt", "education_num", "capital_gain", "capital_loss",
   "hours_per_week"}

\* the fields of a line: the text between consecutive delimiters
RECURSIVE SplitFrom(_, _, _)
SplitFrom(s, i, cur) ==
  IF i > Len(s) THEN <<cur>>
  ELSE IF s[i] = Delimiter THEN <<cur>> \o SplitFrom(s, i + 1, EmptyStr)
  ELSE SplitFrom(s, i + 1, Append(cur, s[i]))

SplitFields(s) == SplitFrom(s, 1, EmptyStr)

IsNumeral(t) ==
  /\ Len(t) > 0
  /\ \A i \in 1..Len(t) : t[i] \in Digits

RECURSIVE StrToInt(_)
StrToInt(t) ==
  IF Len(t) = 0 THEN 0
  ELSE 10 * StrToInt(SubSeq(t, 1, Len(t) - 1)) + DigitVal(t[Len(t)])

\* errors raised by the csv decoder
FieldCountError ==
  [class |-> "InvalidArgumentError", what |-> "field count"]
FieldValueError ==
  [class |-> "InvalidArgumentError", what |-> "not a valid number"]

\* one field against its default: empty -> default, numeric -> number
FieldOk(k, t) ==
  \/ Len(t) = 0
  \/ CSV_COLUMNS[k] \notin NumericColumns
  \/ IsNumeral(t)

FieldValue(k, t) ==
  IF Len(t) = 0 THEN CSV_COLUMN_DEFAULTS[k]
  ELSE IF CSV_COLUMNS[k] \in NumericColumns THEN StrToInt(t)
  ELSE t

\* variant: a short line is filled up with the defaults
PadFields(flds) ==
  [k \in 1..Len(CSV_COLUMN_DEFAULTS) |->
     IF k <= Len(flds) THEN flds[k] ELSE EmptyStr]

decode_csv_padding(value) ==
  LET flds == PadFields(SplitFields(value)) IN
  IF \E k \in 1..Len(flds) : ~FieldOk(k, flds[k])
    THEN [status |-> "error", error |-> FieldValueError]
  ELSE [status |-> "ok",
        columns |-> [k \in 1..Len(flds) |-> FieldValue(k, flds[k])]]

\* tf.decode_csv(value, record_defaults=_CSV_COLUMN_DEFAULTS)
decode_csv(value) ==
  LET flds == SplitFields(value) IN
  IF Len(flds) # Len(CSV_COLUMN_DEFAULTS)
    THEN [status |-> "error", error |-> FieldCountError]
  ELSE IF \E k \in 1..Len(flds) : ~FieldOk(k, flds[k])
    THEN [status |-> "error", error |-> FieldValueError]
  ELSE [status |-> "ok",
        columns |-> [k \in 1..Len(flds) |-> FieldValue(k, flds[k])]]

\* dict(zip(_CSV_COLUMNS, columns))
ZipColumns(cols) ==
  [name \in {CSV_COLUMNS[k] : k \in 1..Len(CSV_COLUMNS)} |->
     cols[CHOOSE k \in 1..Len(CSV_COLUMNS) : CSV_COLUMNS[k] = name]]

\* features.pop('income_bracket'): the dict without the key
PopLabel(dict) ==
  [name \in (DOMAIN dict) \ {"income_bracket"} |-> dict[name]]

\* variant: everything but the below-threshold marker counts as above
LabelOfNotBelow(labels) == labels # sUnder50K

\* tf.equal(labels, '>50K')
LabelOf(labels) == labels = sOver50K

\* parse_csv(value)
parse_csv(value) ==
  LET dec == decode_csv(value) IN
  IF dec.status = "error" THEN dec
  ELSE LET dict == ZipColumns(dec.columns) IN
       [status |-> "ok",
        features |-> PopLabel(dict),
        label |-> LabelOf(dict["income_bracket"])]

NotCalled == [status |-> "none"]

-----------------------------------------------------------------------------
(* tf.feature_column: the column declarations *)

numeric_column(key) == [variant |-> "numeric", key |-> key]

\* called with the keyword defaults: default_value = -1, num_oov_buckets = 0
VocabDefaultValue == -1

categorical_column_with_vocabulary_list(key, vocabulary_list) ==
  [variant |-> "vocabulary_list", key |-> key,
   vocabulary_list |-> vocabulary_list]

categorical_column_with_hash_bucket(key, hash_bucket_size) ==
  [variant |-> "hash_bucket", key |-> key,
   hash_bucket_size |-> hash_bucket_size]

bucketized_column(source_column, boundaries) ==
  [variant |-> "bucketized", source_column |-> source_column,
   boundaries |-> boundaries]

\* a key of a cross given by the name of a raw feature
RawKey(key) == [variant |-> "key", key |-> key]

crossed_column(keys, hash_bucket_size) ==
  [variant |-> "crossed", keys |-> keys,
   hash_bucket_size |-> hash_bucket_size]

relationship ==
  categorical_column_with_vocabulary_list("relationship",
    <<sHusband, sNotInFamily, sWife, sOwnChild, sUnmarried,
      sOtherRelative>>)

HashBucketSize == 1000

occupation ==
  categorical_column_with_hash_bucket("occupation", HashBucketSize)

education ==
  categorical_column_with_vocabulary_list("education",
    <<sBachelors, sHSgrad, s_11th, sMasters, s_9th, sSomeCollege,
      sAssocAcdm, sAssocVoc, s_7th8th, sDoctorate, sProfSchool,
      s_5th6th, s_10th, s_1st4th, sPreschool, s_12th>>)

marital_status ==
  categorical_column_with_vocabulary_list("marital_status",
    <<sMarriedCivSpouse, sDivorced, sMarriedSpouseAbsent, sNeverMarried,
      sSeparated, sMarriedAFSpouse, sWidowed>>)

workclass ==
  categorical_column_with_vocabulary_list("workclass",
    <<sSelfEmpNotInc, sPrivate, sStateGov, sFederalGov, sLocalGov,
      sQuestion, sSelfEmpInc, sWithoutPay, sNeverWorked>>)

age == numeric_column("age")
education_num == numeric_column("education_num")
capital_gain == numeric_column("capital_gain")
capital_loss == numeric_column("capital_loss")
hours_per_week == numeric_column("hours_per_week")

AgeBoundaries == <<18, 25, 30, 35, 40, 45, 50, 55, 60, 65>>

age_buckets == bucketized_column(age, AgeBoundaries)

education_x_occupation ==
  crossed_column(<<RawKey("education"), RawKey("occupation")>>,
                 HashBucketSize)

age_buckets_x_education_x_occupation ==
  crossed_column(<<age_buckets, RawKey("education"), RawKey("occupation")>>,
                 HashBucketSize)

base_columns ==
  <<education, marital_status, relationship, workclass, occupation,
    age_buckets>>

crossed_columns ==
  <<education_x_occupation, age_buckets_x_education_x_occupation>>

-----------------------------------------------------------------------------
(* tf.feature_column: what a column computes from a features dict *)

\* bucketized_column: the number of boundaries that are not above the
\* value, found by bisection over the sorted boundaries
RECURSIVE UpperBound(_, _, _, _)
UpperBound(boundaries, v, lo, hi) ==
  IF lo >= hi THEN lo
  ELSE LET mid == (lo + hi) \div 2 IN
       IF v < boundaries[mid + 1]
         THEN UpperBound(boundaries, v, lo, mid)
         ELSE UpperBound(boundaries, v, mid + 1, hi)

\* variant: a value equal to a boundary stays in the bucket below it
RECURSIVE LowerBound(_, _, _, _)
LowerBound(boundaries, v, lo, hi) ==
  IF lo >= hi THEN lo
  ELSE LET mid == (lo + hi) \div 2 IN
       IF v <= boundaries[mid + 1]
         THEN LowerBound(boundaries, v, lo, mid)
         ELSE LowerBound(boundaries, v, mid + 1, hi)

BucketizeBoundaryBelow(boundaries, v) ==
  LowerBound(boundaries, v, 0, Len(boundaries))

\* variant: the search gives up one bucket early on the right
BucketizeShortRange(boundaries, v) ==
  UpperBound(boundaries, v, 0, Len(boundaries) - 1)

Bucketize(boundaries, v) == UpperBound(boundaries, v, 0, Len(boundaries))

\* variant: the lookup ignores the case of letters
ToLower(c) ==
  IF Ord(c) \in 11..36 THEN Alphabet[Ord(c) + 26] ELSE c

LowerCase(s) == [i \in 1..Len(s) |-> ToLower(s[i])]

VocabularyLookupIgnoreCase(vocabulary_list, s) ==
  IF \E i \in 1..Len(vocabulary_list) :
       LowerCase(vocabulary_list[i]) = LowerCase(s)
    THEN (CHOOSE i \in 1..Len(vocabulary_list) :
            LowerCase(vocabulary_list[i]) = LowerCase(s)) - 1
    ELSE -1

\* vocabulary list: the position of the exactly equal entry, ids counted
\* from 0; a string that is not in the list gets default_value
VocabularyLookup(vocabulary_list, s) ==
  IF \E i \in 1..Len(vocabulary_list) : vocabulary_list[i] = s
    THEN (CHOOSE i \in 1..Len(vocabulary_list) : vocabulary_list[i] = s) - 1
    ELSE VocabDefaultValue

\* the string fingerprint of the hashing ops, at a reduced width: a
\* stable function of the characters of the string and of nothing else
HashModulus == 65536

RECURSIVE Fingerprint(_)
Fingerprint(s) ==
  IF Len(s) = 0 THEN 7
  ELSE (31 * Fingerprint(SubSeq(s, 1, Len(s) - 1)) + Ord(s[Len(s)]))
         % HashModulus

\* hash bucket: fingerprint of the string modulo the number of buckets
\* variant: the fingerprint is reduced by one bucket too many
HashBucketOffByOne(s, hash_bucket_size) ==
  Fingerprint(s) % (hash_bucket_size + 1)

HashBucket(s, hash_bucket_size) == Fingerprint(s) % hash_bucket_size

\* crossed column: the constituents' values are folded into one
\* fingerprint, which is reduced modulo the number of buckets
HashKey == 45054

FingerprintCat(h, x) == (33 * h + (x % HashModulus)) % HashModulus

RECURSIVE CrossFold(_, _)
CrossFold(h, values) ==
  IF Len(values) = 0 THEN h
  ELSE CrossFold(FingerprintCat(h, values[1]), Tail(values))

CrossBucket(values, hash_bucket_size) ==
  CrossFold(HashKey, values) % hash_bucket_size

\* errors raised while the model's input is built
MissingFeatureError(key) ==
  [class |-> "ValueError", what |-> "feature not in features", key |-> key]
NotAFeatureColumnError ==
  [class |-> "ValueError", what |-> "not a feature column"]

Failure(err) == [status |-> "error", error |-> err]

ColumnVariants ==
  {"numeric", "vocabulary_list", "hash_bucket", "bucketized", "crossed"}

\* the value one column yields for one features dict: a number for a
\* numeric column, a bucket id for every other one, or the error raised
RECURSIVE ColumnValue(_, _)
RECURSIVE CrossValues(_, _)
ColumnValue(col, feats) ==
  IF col.variant = "crossed"
    THEN LET vals == CrossValues(col.keys, feats) IN
         IF vals.status = "error" THEN vals
         ELSE [status |-> "ok", dense |-> FALSE,
               value |-> CrossBucket(vals.values, col.hash_bucket_size)]
  ELSE IF col.variant = "bucketized"
    THEN LET src == ColumnValue(col.source_column, feats) IN
         IF src.status = "error" THEN src
         ELSE [status |-> "ok", dense |-> FALSE,
               value |-> Bucketize(col.boundaries, src.value)]
  ELSE IF col.key \notin DOMAIN feats
    THEN Failure(MissingFeatureError(col.key))
  ELSE IF col.variant = "numeric"
    THEN [status |-> "ok", dense |-> TRUE, value |-> feats[col.key]]
  ELSE IF col.variant = "vocabulary_list"
    THEN [status |-> "ok", dense |-> FALSE,
          value |-> VocabularyLookup(col.vocabulary_list, feats[col.key])]
  ELSE [status |-> "ok", dense |-> FALSE,
        value |-> HashBucket(feats[col.key], col.hash_bucket_size)]

\* the values a cross combines: the fingerprint of a raw string feature,
\* the bucket id of a constituent column
CrossValues(keys, feats) ==
  IF Len(keys) = 0 THEN [status |-> "ok", values |-> <<>>]
  ELSE LET k == keys[1]
           head == IF k.variant = "key"
                     THEN IF k.key \notin DOMAIN feats
                            THEN Failure(MissingFeatureError(k.key))
                            ELSE [status |-> "ok",
                                  value |-> Fingerprint(feats[k.key])]
                     ELSE ColumnValue(k, feats)
           rest == CrossValues(Tail(keys), feats) IN
       IF head.status = "error" THEN head
       ELSE IF rest.status = "error" THEN rest
       ELSE [status |-> "ok", values |-> <<head.value>> \o rest.values]

\* variant: a bucketized column gets one slot per boundary
NumBucketsPerBoundary(col) ==
  CASE col.variant = "numeric" -> 1
    [] col.variant = "vocabulary_list" -> Len(col.vocabulary_list)
    [] col.variant = "hash_bucket" -> col.hash_bucket_size
    [] col.variant = "bucketized" -> Len(col.boundaries)
    [] col.variant = "crossed" -> col.hash_bucket_size
    [] OTHER -> 0

\* the number of slots (weights) a column owns
NumBuckets(col) ==
  CASE col.variant = "numeric" -> 1
    [] col.variant = "vocabulary_list" -> Len(col.vocabulary_list)
    [] col.variant = "hash_bucket" -> col.hash_bucket_size
    [] col.variant = "bucketized" -> Len(col.boundaries) + 1
    [] col.variant = "crossed" -> col.hash_bucket_size
    [] OTHER -> 0

\* the slice of the input vector a column fills: the number itself, or
\* a 1 at the bucket id (an id below 0 is dropped and activates nothing)
Slice(col, cv) ==
  IF cv.dense THEN <<cv.value>>
  ELSE [i \in 1..NumBuckets(col) |-> IF i = cv.value + 1 THEN 1 ELSE 0]

\* variant: the slices built before the failing column are handed back
RECURSIVE TransformFromKeepingPartial(_, _, _, _, _)
TransformFromKeepingPartial(cols, feats, k, ids, vector) ==
  IF k > Len(cols) THEN [status |-> "ok", ids |-> ids, vector |-> vector]
  ELSE LET cv == ColumnValue(cols[k], feats) IN
       IF cv.status = "error"
         THEN [status |-> "error", error |-> cv.error, ids |-> ids,
               vector |-> vector]
       ELSE TransformFromKeepingPartial(cols, feats, k + 1,
                                        Append(ids, cv.value),
                                        vector \o Slice(cols[k], cv))

\* the columns in turn; the first error ends the call and is all that
\* the call yields
RECURSIVE TransformFrom(_, _, _, _, _)
TransformFrom(cols, feats, k, ids, vector) ==
  IF k > Len(cols) THEN [status |-> "ok", ids |-> ids, vector |-> vector]
  ELSE LET cv == ColumnValue(cols[k], feats) IN
       IF cv.status = "error" THEN cv
       ELSE TransformFrom(cols, feats, k + 1, Append(ids, cv.value),
                          vector \o Slice(cols[k], cv))

\* the model's input for one features dict: the items of feature_columns
\* are checked to be feature columns, then each is applied
Transform(cols, feats) ==
  IF \E k \in 1..Len(cols) : cols[k].variant \notin ColumnVariants
    THEN Failure(NotAFeatureColumnError)
  ELSE TransformFrom(cols, feats, 1, <<>>, <<>>)

-----------------------------------------------------------------------------
(* Idle values of the parts a specification does not exercise *)

NoFeatures == [none |-> TRUE]

IdleParse == line = EmptyStr /\ parsed = NotCalled

IdleColumns ==
  /\ columns = <<>>
  /\ features = NoFeatures
  /\ output = NotCalled
  /\ calls = {}

IdleMap ==
  /\ file = <<>>
  /\ order = <<>>
  /\ nextLine = 1
  /\ workers = <<>>
  /\ emitted = <<>>
  /\ config = [num_epochs |-> 1, shuffle |-> FALSE, batch_size |-> 1]
  /\ epoch = 1
  /\ batches = <<>>

IdleModel ==
  /\ weights = <<>>
  /\ bias = 0
  /\ lastOp = "none"
  /\ metrics = NotCalled
  /\ steps = 0

-----------------------------------------------------------------------------
(* One call of parse_csv on one line *)

RECURSIVE JoinFields(_)
JoinFields(flds) ==
  IF Len(flds) = 0 THEN EmptyStr
  ELSE IF Len(flds) = 1 THEN flds[1]
  ELSE flds[1] \o <<Delimiter>> \o JoinFields(Tail(flds))

\* the fields of a census line; the ones not named are held fixed
CensusFields(a, e, o, r, c, b) ==
  <<a, sPrivate, s77516, e, s13, sDivorced, o, r, c, sMale, s2174, s0,
    s40, sCuba, b>>

ParseFieldLists ==
  { CensusFields(a, e, sSales, sWife, sWhite, b) :
      a \in {s17, s39, sXL, EmptyStr},
      e \in {sBachelors, sbachelors, EmptyStr},
      b \in {sOver50K, sUnder50K, sOver50k, EmptyStr} }

\* lines with the right number of fields, with one field (one delimiter)
\* fewer, with one more, and the empty line
ParseLines ==
  { JoinFields(f) : f \in ParseFieldLists }
    \cup { JoinFields(SubSeq(f, 1, Len(f) - 1)) : f \in ParseFieldLists }
    \cup { JoinFields(Append(f, s0)) : f \in ParseFieldLists }
    \cup { EmptyStr }

InitParse ==
  /\ line \in ParseLines
  /\ parsed = NotCalled
  /\ IdleColumns /\ IdleMap /\ IdleModel

ParseLine ==
  /\ parsed = NotCalled
  /\ parsed' = parse_csv(line)
  /\ UNCHANGED <<line, columnVars, mapVars, modelVars>>

NextParse == ParseLine

SpecParse == InitParse /\ [][NextParse]_vars

\* the decimal numeral of a natural number
RECURSIVE Numeral(_)
Numeral(n) ==
  IF n < 10 THEN <<Alphabet[n + 1]>>
  ELSE Append(Numeral(n \div 10), Alphabet[(n % 10) + 1])

\* the text a parsed value stands for
TextOf(name, v) == IF name \in NumericColumns THEN Numeral(v) ELSE v

\* a line with one field per column, the numeric ones holding numerals
WellFormed(l) ==
  LET flds == SplitFields(l) IN
  /\ Len(flds) = Len(CSV_COLUMNS)
  /\ \A k \in 1..Len(flds) :
       CSV_COLUMNS[k] \in NumericColumns => IsNumeral(flds[k])

\* C6: on a well-formed line parse_csv returns (record, label): the label
\* is true exactly when the income_bracket field is '>50K', the record has
\* no income_bracket key, and every other column holds the value that
\* stood at its position in the line.
C6_ParseSplitsLabel ==
  (parsed # NotCalled /\ WellFormed(line)) =>
    LET flds == SplitFields(line)
        n == Len(CSV_COLUMNS) IN
    /\ parsed.status = "ok"
    /\ DOMAIN parsed = {"status", "features", "label"}
    /\ parsed.label \in BOOLEAN
    /\ parsed.label <=> (flds[n] = <<">", "5", "0", "K">>)
    /\ DOMAIN parsed.features = {CSV_COLUMNS[k] : k \in 1..(n - 1)}
    /\ "income_bracket" \notin DOMAIN parsed.features
    /\ \A k \in 1..(n - 1) :
         TextOf(CSV_COLUMNS[k], parsed.features[CSV_COLUMNS[k]]) = flds[k]

C6_Witness ==
  /\ WellFormed(line)
  /\ parsed.status = "ok"
  /\ parsed.label = FALSE
  /\ SplitFields(line)[Len(CSV_COLUMNS)] = sOver50k
  /\ parsed.features["age"] = 39
  /\ parsed.features["education"] = sBachelors

\* C7: a line whose number of delimited fields differs from the number of
\* columns makes parse_csv fail with the field-count error, and the
\* failure carries no record and no label.
C7_FieldCountMismatchFails ==
  (parsed # NotCalled /\ Len(SplitFields(line)) # Len(CSV_COLUMNS)) =>
    /\ parsed.status = "error"
    /\ parsed.error = FieldCountError
    /\ DOMAIN parsed = {"status", "error"}

C7_Witness ==
  /\ Len(SplitFields(line)) = Len(CSV_COLUMNS) - 1
  /\ parsed.status = "error"
  /\ parsed.error = FieldCountError

-----------------------------------------------------------------------------
(* The feature columns applied to the records that are fed to the model *)

MaxCalls == 2

FeaturesOf(flds) == parse_csv(JoinFields(flds)).features

Done == output # NotCalled

\* the next record reaches the model
Feed(r) ==
  /\ Done
  /\ Cardinality(calls) < MaxCalls
  /\ features' = r
  /\ output' = NotCalled
  /\ UNCHANGED <<columns, calls, parseVars, mapVars, modelVars>>

\* the model's input is computed for the record
TransformRecord ==
  /\ ~Done
  /\ output' = Transform(columns, features)
  /\ calls' = calls \cup
       {[features |-> features,
         result |-> IF output'.status = "ok" THEN output'.ids
                    ELSE output'.error]}
  /\ UNCHANGED <<columns, features, parseVars, mapVars, modelVars>>

InitColumns(columnLists, records) ==
  /\ columns \in columnLists
  /\ features \in records
  /\ output = NotCalled
  /\ calls = {}
  /\ IdleParse /\ IdleMap /\ IdleModel

\* strictly increasing lists over a set of numbers
RECURSIVE Increasing(_, _)
Increasing(S, n) ==
  IF n = 0 THEN {<<>>}
  ELSE LET shorter == Increasing(S, n - 1) IN
       shorter \cup
         { Append(b, x) : b \in {c \in shorter : Len(c) = n - 1},
                          x \in S }

StrictlyIncreasing(b) == \A i \in 1..(Len(b) - 1) : b[i] < b[i + 1]

\* lists without repetition over a set of strings
NoRepeats(v) == \A i, j \in 1..Len(v) : i # j => v[i] # v[j]

(* bucketized columns *)

MaxBoundaries == 3
BoundaryDomain == {18, 25, 30, 65}
AgeValues == {16, 17, 18, 19, 24, 25, 26, 29, 30, 31, 64, 65, 66}

BoundaryLists ==
  { b \in Increasing(BoundaryDomain, MaxBoundaries) :
      Len(b) > 0 /\ StrictlyIncreasing(b) } \cup {AgeBoundaries}

BucketColumnLists == { <<bucketized_column(age, b)>> : b \in BoundaryLists }

BucketRecords ==
  { FeaturesOf(CensusFields(Numeral(a), sBachelors, sSales, sWife, sWhite,
                            sUnder50K)) : a \in AgeValues }

InitBucket == InitColumns(BucketColumnLists, BucketRecords)

NextBucket ==
  \/ \E r \in BucketRecords : Feed(r)
  \/ TransformRecord

SpecBucket == InitBucket /\ [][NextBucket]_vars

\* the positions of the declared columns of one variant
ColumnsOf(variant) ==
  {k \in 1..Len(columns) : columns[k].variant = variant}

\* C1: for strictly increasing boundaries b and a value v the bucket id is
\* the number of boundaries <= v: 0 below b[first], i between the i-th
\* boundary and the next, Len(b) from b[last] on, always within 0..Len(b);
\* the 10 age boundaries give 11 buckets.
C1_BucketIsCountOfBoundariesNotAbove ==
  (Done /\ output.status = "ok") =>
    \A k \in ColumnsOf("bucketized") :
      LET b == columns[k].boundaries
          v == features[columns[k].source_column.key]
          id == output.ids[k] IN
      /\ id = Cardinality({i \in 1..Len(b) : b[i] <= v})
      /\ id \in 0..Len(b)
      /\ v < b[1] => id = 0
      /\ \A i \in 1..(Len(b) - 1) : (b[i] <= v /\ v < b[i + 1]) => id = i
      /\ v >= b[Len(b)] => id = Len(b)
      /\ b = <<18, 25, 30, 35, 40, 45, 50, 55, 60, 65>> =>
           /\ Len(output.vector) = 11
           /\ v <= 17 => id = 0
           /\ (18 <= v /\ v <= 24) => id = 1
           /\ (25 <= v /\ v <= 29) => id = 2
           /\ v >= 65 => id = 10

C1_Witness ==
  /\ Done /\ output.status = "ok"
  /\ columns = <<age_buckets>>
  /\ features["age"] = 65
  /\ output.ids = <<10>>

Boundaries_18_25_30 == <<bucketized_column(age, <<18, 25, 30>>)>>

\* C2 as stated: boundaries [18,25,30] map 17 to bucket 0, 18 to bucket 1,
\* 29 to bucket 1 and 30 to bucket 3.
C2_AsStated ==
  (Done /\ output.status = "ok" /\ columns = Boundaries_18_25_30) =>
    /\ features["age"] = 17 => output.ids[1] = 0
    /\ features["age"] = 18 => output.ids[1] = 1
    /\ features["age"] = 29 => output.ids[1] = 1
    /\ features["age"] = 30 => output.ids[1] = 3

\* C2 amended: boundaries [18,25,30] map 17 to bucket 0, 18 to bucket 1,
\* 29 to bucket 2 (25 <= 29 < 30) and 30 to bucket 3.
C2_Boundaries_18_25_30 ==
  (Done /\ output.status = "ok" /\ columns = Boundaries_18_25_30) =>
    /\ features["age"] = 17 => output.ids[1] = 0
    /\ features["age"] = 18 => output.ids[1] = 1
    /\ features["age"] = 29 => output.ids[1] = 2
    /\ features["age"] = 30 => output.ids[1] = 3

C2_Witness ==
  /\ Done /\ output.status = "ok"
  /\ columns = Boundaries_18_25_30
  /\ features["age"] = 29
  /\ output.ids[1] = 2

(* vocabulary list columns *)

MaxVocabulary == 3
VocabularyWords == {sHusband, shusband, sWife, sOwnChild}
LookupWords == VocabularyWords \cup {sUnmarried, EmptyStr}

VocabularyLists ==
  { v \in UNION { [1..n -> VocabularyWords] : n \in 1..MaxVocabulary } :
      NoRepeats(v) }

VocabularyColumnLists ==
  { <<categorical_column_with_vocabulary_list("relationship", v)>> :
      v \in VocabularyLists } \cup {<<relationship>>}

VocabularyRecords ==
  { FeaturesOf(CensusFields(s39, sBachelors, sSales, w, sWhite, sUnder50K)) :
      w \in LookupWords }

InitVocabulary == InitColumns(VocabularyColumnLists, VocabularyRecords)

NextVocabulary ==
  \/ \E r \in VocabularyRecords : Feed(r)
  \/ TransformRecord

SpecVocabulary == InitVocabulary /\ [][NextVocabulary]_vars

\* the id a column produced in an earlier call
IdIn(c, k) == c.result[k]

\* C3 as stated: a string equal to the entry at position i (from 0) yields
\* i, every string not in the list yields the last bucket
\* len(vocabulary), the same string always yields the same index, and the
\* index lies in 0..len(vocabulary).
C3_AsStated ==
  (Done /\ output.status = "ok") =>
    \A k \in ColumnsOf("vocabulary_list") :
      LET voc == columns[k].vocabulary_list
          s == features[columns[k].key]
          id == output.ids[k] IN
      /\ \A i \in 1..Len(voc) : voc[i] = s => id = i - 1
      /\ (\A i \in 1..Len(voc) : voc[i] # s) => id = Len(voc)
      /\ id \in 0..Len(voc)
      /\ \A c \in calls :
           c.features[columns[k].key] = s => IdIn(c, k) = id

\* C3 amended: a string equal to the entry at position i (from 0) yields
\* i; every string not in the list yields default_value -1, which is no
\* bucket: nothing in the column's len(vocabulary) slots is activated;
\* the same string always yields the same index, which lies in
\* -1..len(vocabulary)-1.
C3_VocabularyLookup ==
  (Done /\ output.status = "ok") =>
    \A k \in ColumnsOf("vocabulary_list") :
      LET voc == columns[k].vocabulary_list
          s == features[columns[k].key]
          id == output.ids[k] IN
      /\ \A i \in 1..Len(voc) : voc[i] = s => id = i - 1
      /\ (\A i \in 1..Len(voc) : voc[i] # s) => id = -1
      /\ id \in (-1)..(Len(voc) - 1)
      /\ Len(columns) = 1 =>
           /\ Len(output.vector) = Len(voc)
           /\ \A p \in 1..Len(voc) : output.vector[p] = 1 <=> p = id + 1
      /\ \A c \in calls :
           c.features[columns[k].key] = s => IdIn(c, k) = id

\* a word that differs from an entry only by case is not in the list
C3_Witness ==
  /\ Done /\ output.status = "ok"
  /\ columns[1].variant = "vocabulary_list"
  /\ columns[1].vocabulary_list = <<sWife, sHusband>>
  /\ features["relationship"] = shusband
  /\ output.ids = <<-1>>
  /\ \E c \in calls : c.features["relationship"] = sHusband /\ c.result = <<1>>

(* hash bucket and crossed columns *)

HashSizes == {1, 3, HashBucketSize}

SmallAgeBuckets == bucketized_column(age, <<18, 25, 30>>)

HashColumnLists ==
  { <<categorical_column_with_hash_bucket("occupation", n)>> :
      n \in HashSizes }
  \cup
  { <<crossed_column(<<RawKey("education"), RawKey("occupation")>>, n)>> :
      n \in HashSizes }
  \cup
  { <<crossed_column(<<b, RawKey("education"), RawKey("occupation")>>, n)>> :
      b \in {SmallAgeBuckets, age_buckets}, n \in HashSizes }
  \cup
  { <<crossed_column(
        <<crossed_column(<<RawKey("education"), RawKey("occupation")>>, m),
          SmallAgeBuckets>>, n)>> : m \in HashSizes, n \in HashSizes }

HashRecords ==
  { FeaturesOf(CensusFields(a, e, o, sWife, c, sUnder50K)) :
      a \in {Numeral(16), s17, s30},
      e \in {sBachelors, sMasters},
      o \in {sSales, sTech},
      c \in {sWhite, sBlack} }

InitHash == InitColumns(HashColumnLists, HashRecords)

NextHash ==
  \/ \E r \in HashRecords : Feed(r)
  \/ TransformRecord

SpecHash == InitHash /\ [][NextHash]_vars

\* what a hashed or crossed column is declared to combine: the raw string
\* of a named feature, the interval of a bucketized constituent, and the
\* same for the constituents of a nested cross
RECURSIVE ConstituentValues(_, _)
ConstituentValues(col, feats) ==
  CASE col.variant \in {"hash_bucket", "key"} -> <<feats[col.key]>>
    [] col.variant = "bucketized" ->
         <<Cardinality({i \in 1..Len(col.boundaries) :
                          col.boundaries[i] <= feats[col.source_column.key]})>>
    [] col.variant = "crossed" ->
         [j \in 1..Len(col.keys) |-> ConstituentValues(col.keys[j], feats)]

\* C4: a hash bucket column and a crossed column (also one over a
\* bucketized column or over another cross) yield an index in
\* 0..hash_bucket_size-1; calls with identical constituent values yield
\* the same index, whatever the other fields of the record are.
C4_HashedIndexInRangeAndStable ==
  (Done /\ output.status = "ok") =>
    \A k \in ColumnsOf("hash_bucket") \cup ColumnsOf("crossed") :
      /\ output.ids[k] \in 0..(columns[k].hash_bucket_size - 1)
      /\ \A c \in calls :
           ConstituentValues(columns[k], c.features)
             = ConstituentValues(columns[k], features)
           => IdIn(c, k) = output.ids[k]

\* two records of different age (same interval) and race, same cross
C4_Witness ==
  /\ Done /\ output.status = "ok"
  /\ columns[1].variant = "crossed"
  /\ columns[1].hash_bucket_size = HashBucketSize
  /\ columns[1].keys[1].variant = "crossed"
  /\ \E c \in calls :
       /\ c.features["race"] # features["race"]
       /\ c.features["age"] # features["age"]
       /\ c.features["education"] = features["education"]
       /\ c.features["occupation"] = features["occupation"]
       /\ c.result = output.ids

(* lists of columns, as handed to the LinearClassifier *)

SmallHash == categorical_column_with_hash_bucket("occupation", 3)

SmallCross ==
  crossed_column(<<SmallAgeBuckets, RawKey("relationship")>>, 3)

ShortRelationship ==
  categorical_column_with_vocabulary_list("relationship",
                                          <<sHusband, sWife>>)

\* column lists whose features are all present in a parsed record
UsableColumnLists ==
  { base_columns \o crossed_columns,
    <<age, ShortRelationship, SmallAgeBuckets>>,
    <<SmallAgeBuckets, ShortRelationship, age>>,
    <<SmallHash, education_num, SmallCross, hours_per_week>>,
    <<education, SmallCross>> }

\* column lists with an item that cannot be applied: a column over the
\* label, which parse_csv popped, over a feature the file does not have,
\* and an item that is not a feature column
UnusableColumnLists ==
  { <<ShortRelationship, numeric_column("income_bracket")>>,
    <<SmallAgeBuckets, SmallHash,
      categorical_column_with_hash_bucket("zipcode", 3)>>,
    <<age,
      crossed_column(<<SmallAgeBuckets, RawKey("income_bracket")>>, 3)>>,
    <<bucketized_column(numeric_column("zipcode"), <<18, 25>>), age>>,
    <<ShortRelationship, [variant |-> "string", key |-> "occupation"]>>,
    <<numeric_column("zipcode"), [variant |-> "string", key |-> "age"]>> }

TransformRecords ==
  { FeaturesOf(CensusFields(a, e, sSales, r, sWhite, sUnder50K)) :
      a \in {s17, s39},
      e \in {sBachelors, sbachelors},
      r \in {sHusband, shusband, sWife} }

InitTransform ==
  InitColumns(UsableColumnLists \cup UnusableColumnLists, TransformRecords)

NextTransform ==
  \/ \E r \in TransformRecords : Feed(r)
  \/ TransformRecord

SpecTransform == InitTransform /\ [][NextTransform]_vars

\* the width a column declares: 1 for a number, its number of buckets
\* for the others
DeclaredWidth(col) ==
  IF col.variant = "numeric" THEN 1
  ELSE IF col.variant = "vocabulary_list" THEN Len(col.vocabulary_list)
  ELSE IF col.variant = "bucketized" THEN Len(col.boundaries) + 1
  ELSE col.hash_bucket_size

RECURSIVE WidthUpTo(_, _)
WidthUpTo(cols, k) ==
  IF k = 0 THEN 0 ELSE WidthUpTo(cols, k - 1) + DeclaredWidth(cols[k])

\* the positions of column k's slice that are not 0
ActiveIn(k) ==
  {p \in 1..DeclaredWidth(columns[k]) :
     output.vector[WidthUpTo(columns, k - 1) + p] # 0}

NotNumeric == {k \in 1..Len(columns) : columns[k].variant # "numeric"}

\* C5 as stated: the vector of a valid record has the length that the
\* columns declare in total, and in the slice of every column that is
\* not numeric exactly one position is active, at an index that is not
\* negative and below the column's cardinality.
C5_AsStated ==
  (Done /\ output.status = "ok") =>
    /\ Len(output.vector) = WidthUpTo(columns, Len(columns))
    /\ \A k \in NotNumeric :
         /\ output.ids[k] \in 0..(DeclaredWidth(columns[k]) - 1)
         /\ ActiveIn(k) = {output.ids[k] + 1}

\* the vocabulary columns whose feature value is not in the list
OutOfVocabulary ==
  {k \in ColumnsOf("vocabulary_list") :
     \A i \in 1..Len(columns[k].vocabulary_list) :
       columns[k].vocabulary_list[i] # features[columns[k].key]}

\* C5 amended: the vector of a valid record has the length that the
\* columns declare in total, whatever the record; in the slice of every
\* column that is not numeric at most one position is active: exactly
\* one, at the column's index in 0..cardinality-1, except that a
\* vocabulary-list column activates none for a value not in its list.
C5_VectorWidthAndOneHot ==
  (Done /\ output.status = "ok") =>
    /\ Len(output.vector) = WidthUpTo(columns, Len(columns))
    /\ \A k \in NotNumeric \ OutOfVocabulary :
         /\ output.ids[k] \in 0..(DeclaredWidth(columns[k]) - 1)
         /\ ActiveIn(k) = {output.ids[k] + 1}
    /\ \A k \in OutOfVocabulary : ActiveIn(k) = {}
    /\ \A k \in 1..Len(columns) :
         columns[k].variant = "numeric" =>
           output.vector[WidthUpTo(columns, k)] = features[columns[k].key]

\* the model of the notebook on a record with an unlisted education
C5_Witness ==
  /\ Done /\ output.status = "ok"
  /\ columns = base_columns \o crossed_columns
  /\ Len(output.vector) = 3049
  /\ features["education"] = sbachelors
  /\ OutOfVocabulary = {1}
  /\ features["age"] = 39
  /\ output.ids[6] = 4

\* a column that cannot be applied to the record
RECURSIVE Unusable(_, _)
Unusable(col, feats) ==
  CASE col.variant \in {"numeric", "vocabulary_list", "hash_bucket", "key"}
         -> col.key \notin DOMAIN feats
    [] col.variant = "bucketized" -> Unusable(col.source_column, feats)
    [] col.variant = "crossed" ->
         \E j \in 1..Len(col.keys) : Unusable(col.keys[j], feats)
    [] OTHER -> TRUE

\* C8: when a column of the list cannot be applied to the record, the
\* transform yields the error and nothing else - no vector, no ids, not
\* even those of the columns before the failing one - and no later step
\* turns the failure for that record into a result.
C8_TransformFailsWhole ==
  /\ [](( Done /\ \E k \in 1..Len(columns) : Unusable(columns[k], features) )
          => /\ output.status = "error"
             /\ DOMAIN output = {"status", "error"}
             /\ output.error.class = "ValueError")
  /\ [][ (Done /\ output.status = "error" /\ features' = features)
           => output'.status # "ok" ]_vars

C8_Witness ==
  /\ Done /\ output.status = "error"
  /\ Len(columns) = 3
  /\ ~Unusable(columns[1], features) /\ ~Unusable(columns[2], features)
  /\ output.error = MissingFeatureError("zipcode")

-----------------------------------------------------------------------------
(* input_fn: dataset.map(parse_csv, num_parallel_calls=5) *)

NumParallelCalls == 5

MaxLines == 3

\* two census lines that differ in features and in label, and a line
\* that lost its last field
MapLines ==
  { JoinFields(CensusFields(s39, sBachelors, sSales, sWife, sWhite,
                            sUnder50K)),
    JoinFields(CensusFields(s17, sMasters, sTech, sHusband, sBlack,
                            sOver50K)),
    JoinFields(<<s39, sPrivate>>) }

Files == UNION { [1..n -> MapLines] : n \in 1..MaxLines }

ReadOrders(n) ==
  { f \in [1..n -> 1..n] : \A i, j \in 1..n : i # j => f[i] # f[j] }

Waiting == [pc |-> "waiting"]

\* the number of elements delivered in the iteration under way
Delivered == Len(emitted) - (epoch - 1) * Len(file)

\* the invocations whose result has not been delivered yet
InFlight ==
  {p \in 1..Len(workers) : workers[p].pc # "waiting" /\ p > Delivered}

\* the iteration ended with the error of a failed invocation
Aborted ==
  Len(emitted) > 0 /\ emitted[Len(emitted)].status = "error"

InitMap ==
  /\ file \in Files
  /\ order \in ReadOrders(Len(file))
  /\ nextLine = 1
  /\ workers = [p \in 1..Len(file) |-> Waiting]
  /\ emitted = <<>>
  /\ config = [num_epochs |-> 1, shuffle |-> TRUE, batch_size |-> 1]
  /\ epoch = 1
  /\ batches = <<>>
  /\ IdleParse /\ IdleColumns /\ IdleModel

\* the next line, in reading order, is handed to a free invocation
StartCall ==
  /\ nextLine <= Len(file)
  /\ Cardinality(InFlight) < NumParallelCalls
  /\ ~Aborted
  /\ workers' = [workers EXCEPT ![nextLine] =
                   [pc |-> "decode",
                    value |-> file[order[(epoch - 1) * Len(file)
                                           + nextLine]]]]
  /\ nextLine' = nextLine + 1
  /\ UNCHANGED <<file, order, emitted, config, epoch, batches, parseVars,
                 columnVars, modelVars>>

\* what tf.decode_csv returns for each line a file can hold
DecodedLine == [l \in MapLines |-> decode_csv(l)]

\* columns = tf.decode_csv(value, record_defaults=_CSV_COLUMN_DEFAULTS)
DecodeStep(p) ==
  /\ workers[p].pc = "decode"
  /\ LET dec == DecodedLine[workers[p].value] IN
     workers' = [workers EXCEPT ![p] =
       IF dec.status = "error"
         THEN [pc |-> "done", result |-> dec]
         ELSE [pc |-> "equal", value |-> workers[p].value,
               columns |-> dec.columns]]
  /\ UNCHANGED <<file, order, nextLine, emitted, config, epoch, batches,
                 parseVars, columnVars, modelVars>>

\* the invocations that hold decoded columns
Decoded == {q \in 1..Len(workers) : workers[q].pc = "equal"}

\* variant: the label is read from a buffer shared by the invocations,
\* which holds the columns of the line decoded for the latest position
LabelsOfLatest(p) ==
  ZipColumns(workers[CHOOSE q \in Decoded : \A r \in Decoded : r <= q]
               .columns)["income_bracket"]

\* labels = features.pop('income_bracket'), within the invocation
LabelsOf(p) == ZipColumns(workers[p].columns)["income_bracket"]

\* features = dict(zip(...)); pop the label; return features, equal(...)
ReturnStep(p) ==
  /\ workers[p].pc = "equal"
  /\ workers' = [workers EXCEPT ![p] =
       [pc |-> "done",
        result |-> [status |-> "ok",
                    features |-> PopLabel(ZipColumns(workers[p].columns)),
                    label |-> LabelOf(LabelsOf(p))]]]
  /\ UNCHANGED <<file, order, nextLine, emitted, config, epoch, batches,
                 parseVars, columnVars, modelVars>>

\* the results leave the map in the order of the input
Deliver ==
  /\ ~Aborted
  /\ Delivered < Len(workers)
  /\ workers[Delivered + 1].pc = "done"
  /\ emitted' = Append(emitted, workers[Delivered + 1].result)
  /\ UNCHANGED <<file, order, nextLine, workers, config, epoch, parseVars,
                 columnVars, modelVars>>

NextMap ==
  \/ StartCall
  \/ \E p \in 1..Len(workers) : DecodeStep(p)
  \/ \E p \in 1..Len(workers) : ReturnStep(p)
  \/ Deliver /\ UNCHANGED batches

SpecMap == InitMap /\ [][NextMap]_vars

\* C10: under every interleaving of the concurrent invocations of
\* parse_csv, each delivered (features, label) pair is the features and
\* the label of one and the same input line.
C10_PairsStayTogether ==
  \A k \in 1..Len(emitted) :
    emitted[k].status = "ok" =>
      LET own == parse_csv(file[order[k]]) IN
      /\ own.status = "ok"
      /\ emitted[k].features = own.features
      /\ emitted[k].label = own.label
      /\ \E i \in 1..Len(file) :
           /\ parse_csv(file[i]).status = "ok"
           /\ emitted[k].features = parse_csv(file[i]).features
           /\ emitted[k].label = parse_csv(file[i]).label

\* two lines of different label were in flight together, and both pairs
\* were delivered
C10_Witness ==
  /\ Len(emitted) = 2
  /\ emitted[1].status = "ok" /\ emitted[2].status = "ok"
  /\ emitted[1].label = TRUE /\ emitted[2].label = FALSE
  /\ emitted[1].features["age"] = 17 /\ emitted[2].features["age"] = 39

-----------------------------------------------------------------------------
(* The LinearClassifier over base_columns + crossed_columns: train,       *)
(* evaluate and score                                                      *)

MaxSteps == 3
MaxEpochs == 2
MaxDataLines == 2
BatchSizes == {1, 2}

feature_columns == base_columns \o crossed_columns

RECURSIVE TotalWidth(_, _)
TotalWidth(cols, k) ==
  IF k = 0 THEN 0 ELSE TotalWidth(cols, k - 1) + NumBuckets(cols[k])

NumWeights == TotalWidth(feature_columns, Len(feature_columns))

\* the census lines of the data files, and the files handed to input_fn
DataLines == { l \in MapLines : parse_csv(l).status = "ok" }

DataFiles == UNION { [1..n -> DataLines] : n \in 1..MaxDataLines }

\* what the model sees of one line: the bucket id of every column, and
\* the label
Example ==
  [l \in DataLines |->
     LET rec == parse_csv(l) IN
     [ids |-> Transform(feature_columns, rec.features).ids,
      label |-> rec.label]]

\* input_fn: the lines in reading order, epoch after epoch, as examples
RECURSIVE Stream(_, _, _)
Stream(data, orders, e) ==
  IF e > Len(orders) THEN <<>>
  ELSE [i \in 1..Len(data) |-> Example[data[orders[e][i]]]]
         \o Stream(data, orders, e + 1)

\* the slot of the weight vector that bucket id of the k-th column owns
SlotOf(k, id) == TotalWidth(feature_columns, k - 1) + id + 1

\* w.x + b: the weights of the slots the example activates (an id below
\* 0 activates none)
RECURSIVE WeightedSum(_, _, _)
WeightedSum(w, ids, k) ==
  IF k = 0 THEN 0
  ELSE WeightedSum(w, ids, k - 1)
         + (IF ids[k] < 0 THEN 0 ELSE w[SlotOf(k, ids[k])])

Logit(w, b, ex) == b + WeightedSum(w, ex.ids, Len(ex.ids))

\* the class the model predicts: probability above 0.5, i.e. logit above 0
Predict(w, b, ex) == Logit(w, b, ex) > 0

\* the direction in which one example pulls the weights
ErrorOf(w, b, ex) ==
  (IF ex.label THEN 1 ELSE 0) - (IF Predict(w, b, ex) THEN 1 ELSE 0)

\* the weights after the slots of one example moved by its error
RECURSIVE AddExample(_, _, _, _)
AddExample(w, ids, err, k) ==
  IF k = 0 THEN w
  ELSE LET rest == AddExample(w, ids, err, k - 1) IN
       IF ids[k] < 0 THEN rest
       ELSE [rest EXCEPT ![SlotOf(k, ids[k])] = @ + err]

\* one optimizer step on one batch: the errors are taken at the weights
\* before the step, and every example moves the slots it activates
RECURSIVE AddBatch(_, _, _, _)
AddBatch(w, batch, errs, j) ==
  IF j = 0 THEN w
  ELSE AddExample(AddBatch(w, batch, errs, j - 1), batch[j].ids, errs[j],
                  Len(batch[j].ids))

RECURSIVE SumOf(_, _)
SumOf(q, j) == IF j = 0 THEN 0 ELSE SumOf(q, j - 1) + q[j]

ApplyBatch(w, b, batch) ==
  LET errs == [j \in 1..Len(batch) |-> ErrorOf(w, b, batch[j])] IN
  [weights |-> AddBatch(w, batch, errs, Len(batch)),
   bias |-> b + SumOf(errs, Len(errs))]

RECURSIVE TrainOn(_, _, _, _)
TrainOn(w, b, stream, batch_size) ==
  IF Len(stream) = 0 THEN [weights |-> w, bias |-> b]
  ELSE LET n == IF Len(stream) < batch_size THEN Len(stream)
                ELSE batch_size
           after == ApplyBatch(w, b, SubSeq(stream, 1, n)) IN
       TrainOn(after.weights, after.bias,
               SubSeq(stream, n + 1, Len(stream)), batch_size)

\* variant: the optimizer also runs when the model is only evaluated
ModelFnAlwaysTraining(mode, w, b, stream, batch_size) ==
  TrainOn(w, b, stream, batch_size)

\* the model function of the estimator: the parameters after a call in
\* the given mode; only a training call applies the optimizer
ModelFn(mode, w, b, stream, batch_size) ==
  IF mode = "train" THEN TrainOn(w, b, stream, batch_size)
  ELSE [weights |-> w, bias |-> b]

\* the arithmetic of the logistic function: binary floating point at
\* half-precision width, a value being m * 2^e with an 11-bit mantissa,
\* rounded to nearest (ties to even), with subnormals, infinity and NaN.
\* Only values that are not negative occur.
MantissaBits == 11
MinExponent == -24
MaxExponent == 5

RECURSIVE Pow2(_)
Pow2(n) == IF n <= 0 THEN 1 ELSE 2 * Pow2(n - 1)

RECURSIVE BitLength(_)
BitLength(m) == IF m = 0 THEN 0 ELSE 1 + BitLength(m \div 2)

FZero == [kind |-> "zero", m |-> 0, e |-> 0]
FInf == [kind |-> "inf", m |-> 0, e |-> 0]
FNaN == [kind |-> "nan", m |-> 0, e |-> 0]
FOne == [kind |-> "num", m |-> Pow2(MantissaBits - 1),
         e |-> 1 - MantissaBits]

\* m / 2^s rounded to the nearest integer, ties to even
RoundShift(m, s) ==
  LET q == m \div Pow2(s)
      r == m % Pow2(s)
      half == Pow2(s - 1) IN
  IF r > half \/ (r = half /\ q % 2 = 1) THEN q + 1 ELSE q

\* the floating point number nearest to m * 2^e
Pack(m, e) ==
  IF m = 0 THEN FZero
  ELSE
    LET bits == BitLength(m)
        over == bits - MantissaBits
        under == MinExponent - e
        s == IF over > under THEN over ELSE under IN
    IF s > 0
      THEN IF s > bits + 1 THEN FZero
           ELSE LET q == RoundShift(m, s)
                    carry == q = Pow2(MantissaBits)
                    m2 == IF carry THEN Pow2(MantissaBits - 1) ELSE q
                    e2 == IF carry THEN e + s + 1 ELSE e + s IN
                IF m2 = 0 THEN FZero
                ELSE IF e2 > MaxExponent THEN FInf
                ELSE [kind |-> "num", m |-> m2, e |-> e2]
      ELSE LET t == IF -over < -under THEN -over ELSE -under IN
           IF e - t > MaxExponent THEN FInf
           ELSE [kind |-> "num", m |-> m * Pow2(t), e |-> e - t]

FMul(a, b) ==
  IF a.kind = "nan" \/ b.kind = "nan" THEN FNaN
  ELSE IF {a.kind, b.kind} = {"zero", "inf"} THEN FNaN
  ELSE IF a.kind = "inf" \/ b.kind = "inf" THEN FInf
  ELSE IF a.kind = "zero" \/ b.kind = "zero" THEN FZero
  ELSE Pack(a.m * b.m, a.e + b.e)

FAdd(a, b) ==
  IF a.kind = "nan" \/ b.kind = "nan" THEN FNaN
  ELSE IF a.kind = "inf" \/ b.kind = "inf" THEN FInf
  ELSE IF a.kind = "zero" THEN b
  ELSE IF b.kind = "zero" THEN a
  ELSE LET hi == IF a.e >= b.e THEN a ELSE b
           lo == IF a.e >= b.e THEN b ELSE a
           d == hi.e - lo.e IN
       IF d > MantissaBits + 2 THEN hi
       ELSE Pack(hi.m * Pow2(d) + lo.m, lo.e)

FDiv(a, b) ==
  IF a.kind = "nan" \/ b.kind = "nan" THEN FNaN
  ELSE IF a.kind = b.kind /\ a.kind \in {"zero", "inf"} THEN FNaN
  ELSE IF a.kind = "inf" \/ b.kind = "zero" THEN FInf
  ELSE IF a.kind = "zero" \/ b.kind = "inf" THEN FZero
  ELSE LET q == (a.m * Pow2(19)) \div b.m
           sticky == IF (a.m * Pow2(19)) % b.m = 0 THEN 0 ELSE 1 IN
       Pack(2 * q + sticky, a.e - b.e - 20)

\* e and 1/e, rounded
FEuler == [kind |-> "num", m |-> 1392, e |-> -9]
FEulerInverse == [kind |-> "num", m |-> 1507, e |-> -12]

\* exp(x) for a whole x: the product of |x| factors e (or 1/e), which
\* stays where it is once it has reached infinity (or zero)
RECURSIVE FPower(_, _, _)
FPower(acc, factor, n) ==
  IF n = 0 \/ acc.kind # "num" THEN acc
  ELSE FPower(FMul(acc, factor), factor, n - 1)

FExp(x) ==
  IF x >= 0 THEN FPower(FOne, FEuler, x)
  ELSE FPower(FOne, FEulerInverse, -x)

\* a < b, for values that are not NaN
FLess(a, b) ==
  \/ a.kind = "zero" /\ b.kind \in {"num", "inf"}
  \/ a.kind = "num" /\ b.kind = "inf"
  \/ /\ a.kind = "num" /\ b.kind = "num"
     /\ (a.e < b.e \/ (a.e = b.e /\ a.m < b.m))

FLeq(a, b) == a = b \/ FLess(a, b)

\* variant: the logistic function written as exp(t) / (1 + exp(t))
SigmoidByRatio(t) == FDiv(FExp(t), FAdd(FOne, FExp(t)))

\* the logistic function S(t) = 1 / (1 + exp(-t))
Sigmoid(t) == FDiv(FOne, FAdd(FOne, FExp(-t)))

\* the number of examples of the stream the model classifies correctly
RECURSIVE Correct(_, _, _, _)
Correct(w, b, stream, k) ==
  IF k = 0 THEN 0
  ELSE Correct(w, b, stream, k - 1)
         + (IF Predict(w, b, stream[k]) = stream[k].label THEN 1 ELSE 0)

Init ==
  /\ weights = [i \in 1..NumWeights |-> 0]
  /\ bias = 0
  /\ lastOp = "none"
  /\ metrics = NotCalled
  /\ steps = 0
  /\ IdleParse /\ IdleColumns /\ IdleMap

\* model.train(input_fn=lambda: input_fn(train_data, num_epochs, True,
\*                                       batch_size))
Train(train_data, orders, batch_size) ==
  /\ steps < MaxSteps
  /\ LET after == ModelFn("train", weights, bias,
                          Stream(train_data, orders, 1), batch_size) IN
     /\ weights' = after.weights
     /\ bias' = after.bias
  /\ lastOp' = "train"
  /\ steps' = steps + 1
  /\ UNCHANGED <<metrics, parseVars, columnVars, mapVars>>

\* results = model.evaluate(input_fn=lambda: input_fn(test_data, 1, False,
\*                                                    batch_size))
Evaluate(test_data, batch_size) ==
  /\ steps < MaxSteps
  /\ LET stream == Stream(test_data,
                          <<[i \in 1..Len(test_data) |-> i]>>, 1)
         after == ModelFn("eval", weights, bias, stream, batch_size) IN
     /\ weights' = after.weights
     /\ bias' = after.bias
     /\ metrics' = [status |-> "ok",
                    correct |-> Correct(weights, bias, stream, Len(stream)),
                    examples |-> Len(stream)]
  /\ lastOp' = "evaluate"
  /\ steps' = steps + 1
  /\ UNCHANGED <<parseVars, columnVars, mapVars>>

\* the score of one record under the current parameters
Score(l) ==
  /\ steps < MaxSteps
  /\ LET ex == Example[l]
         after == ModelFn("predict", weights, bias, <<ex>>, 1) IN
     /\ weights' = after.weights
     /\ bias' = after.bias
     /\ metrics' = [status |-> "ok",
                    logit |-> Logit(weights, bias, ex),
                    probability |-> Sigmoid(Logit(weights, bias, ex)),
                    class |-> Predict(weights, bias, ex)]
  /\ lastOp' = "score"
  /\ steps' = steps + 1
  /\ UNCHANGED <<parseVars, columnVars, mapVars>>

EpochOrders(data) ==
  UNION { [1..n -> ReadOrders(Len(data))] : n \in 1..MaxEpochs }

Next ==
  \/ \E d \in DataFiles, bs \in BatchSizes :
       \E orders \in EpochOrders(d) : Train(d, orders, bs)
  \/ \E d \in DataFiles, bs \in BatchSizes : Evaluate(d, bs)
  \/ \E d \in DataFiles : Score(d[1])

Spec == Init /\ [][Next]_vars

\* C9: only training changes the weight vector: every evaluate and every
\* score step leaves all coefficients and the bias as they were, so that
\* evaluations with no training between them read the same weights.
C9_OnlyTrainingWritesWeights ==
  [][ lastOp' \in {"evaluate", "score"}
        => (weights' = weights /\ bias' = bias) ]_vars

\* an evaluation of a model that training has changed
C9_Witness ==
  /\ lastOp = "evaluate"
  /\ steps = MaxSteps
  /\ \E i \in 1..Len(weights) : weights[i] # 0
  /\ metrics.status = "ok" /\ metrics.correct < metrics.examples

-----------------------------------------------------------------------------
(* Scoring under parameters of any size *)

MaxLogit == 30
ExtremeLogit == 1000000

LogitValues == ((-MaxLogit)..MaxLogit) \cup {-ExtremeLogit, ExtremeLogit}

InitScore ==
  /\ weights = [i \in 1..NumWeights |-> 0]
  /\ bias \in LogitValues
  /\ lastOp = "none"
  /\ metrics = NotCalled
  /\ steps = 0
  /\ IdleParse /\ IdleColumns /\ IdleMap

\* the estimator is built again over model_dir and takes the parameters
\* that are stored there
Restore(b) ==
  /\ lastOp # "restore"
  /\ bias' = b
  /\ lastOp' = "restore"
  /\ UNCHANGED <<weights, metrics, steps, parseVars, columnVars, mapVars>>

NextScore ==
  \/ \E l \in DataLines : Score(l)
  \/ \E b \in LogitValues : Restore(b)

SpecScore == InitScore /\ [][NextScore]_vars

Scored == lastOp = "score" /\ metrics.status = "ok"

FHalf == [kind |-> "num", m |-> 1024, e |-> -11]

\* C11 as stated: sigmoid(0) = 0.5, the function is monotonically
\* increasing, and its value lies strictly inside (0,1) for every input,
\* also for z = 1e6 and z = -1e6, without overflow or NaN.
C11_AsStated ==
  Scored =>
    /\ metrics.probability.kind = "num"
    /\ metrics.logit = 0 => metrics.probability = FHalf
    /\ FLess(FZero, metrics.probability)
    /\ FLess(metrics.probability, FOne)

\* C11 amended: sigmoid(0) = 0.5, the function never decreases as z
\* grows, and its value is a number in the closed interval [0,1], never
\* NaN or infinite; at the extreme inputs it is exactly 1 (z = 1e6) and
\* exactly 0 (z = -1e6).
C11_SigmoidInClosedUnitInterval ==
  /\ [](Scored =>
          /\ metrics.probability.kind \in {"zero", "num"}
          /\ FLeq(FZero, metrics.probability)
          /\ FLeq(metrics.probability, FOne)
          /\ metrics.logit = 0 => metrics.probability = FHalf
          /\ metrics.logit > 0 => FLess(FHalf, metrics.probability)
          /\ metrics.logit < 0 => FLess(metrics.probability, FHalf)
          /\ metrics.logit = ExtremeLogit => metrics.probability = FOne
          /\ metrics.logit = -ExtremeLogit => metrics.probability = FZero)
  /\ [][ (metrics.status = "ok" /\ metrics'.status = "ok"
            /\ metrics.logit <= metrics'.logit)
           => FLeq(metrics.probability, metrics'.probability) ]_vars

C11_Witness ==
  /\ Scored
  /\ metrics.logit = ExtremeLogit
  /\ metrics.probability = FOne
  /\ steps = 2

-----------------------------------------------------------------------------
(* input_fn: shuffle, map, repeat, batch *)

\* the file positions in the order of the file, num_epochs times over
InFileOrder(n, k) == [j \in 1..(k * n) |-> ((j - 1) % n) + 1]

\* the positions of iteration e within a stream over n lines
Block(n, e) == ((e - 1) * n + 1)..(e * n)

\* variant: repeat, then shuffle: the shuffle works on the lines of all
\* the iterations together
RepeatThenShuffle(n, k) ==
  { s \in [1..(k * n) -> 1..n] :
      \A i \in 1..n : Cardinality({j \in 1..(k * n) : s[j] = i}) = k }

\* shuffle, then repeat: every iteration of the repeat runs the shuffle
\* over the file anew
ShuffleThenRepeat(n, k) ==
  { s \in [1..(k * n) -> 1..n] :
      \A e \in 1..k : \A i \in 1..n : \E j \in Block(n, e) : s[j] = i }

Configs ==
  [num_epochs : 1..MaxEpochs, shuffle : BOOLEAN, batch_size : BatchSizes]

InitEpochs ==
  /\ file \in DataFiles
  /\ config \in Configs
  /\ order \in IF config.shuffle
                 THEN ShuffleThenRepeat(Len(file), config.num_epochs)
                 ELSE {InFileOrder(Len(file), config.num_epochs)}
  /\ nextLine = 1
  /\ workers = [p \in 1..Len(file) |-> Waiting]
  /\ emitted = <<>>
  /\ epoch = 1
  /\ batches = <<>>
  /\ IdleParse /\ IdleColumns /\ IdleModel

\* dataset.repeat(num_epochs): when the iteration over the file has
\* ended, the next one begins
NextEpoch ==
  /\ ~Aborted
  /\ Delivered = Len(file)
  /\ epoch < config.num_epochs
  /\ epoch' = epoch + 1
  /\ nextLine' = 1
  /\ workers' = [p \in 1..Len(file) |-> Waiting]
  /\ UNCHANGED <<file, order, emitted, config, batches, parseVars,
                 columnVars, modelVars>>

\* dataset.batch(batch_size): a batch leaves when it is full, and the
\* last one when the stream has ended
Batch ==
  LET taken == Len(batches) * config.batch_size
      full == Len(emitted') - taken = config.batch_size
      ended == Len(emitted') = config.num_epochs * Len(file) IN
  batches' = IF full \/ ended
               THEN Append(batches, SubSeq(emitted', taken + 1,
                                           Len(emitted')))
               ELSE batches

NextEpochs ==
  \/ StartCall
  \/ \E p \in 1..Len(workers) : DecodeStep(p)
  \/ \E p \in 1..Len(workers) : ReturnStep(p)
  \/ Deliver /\ Batch
  \/ NextEpoch

SpecEpochs == InitEpochs /\ [][NextEpochs]_vars

\* what parse_csv makes of each line
Parsed == [l \in DataLines |-> parse_csv(l)]

\* the record is the one parse_csv makes of the line
RecordOf(r, l) ==
  /\ r.status = "ok"
  /\ r.features = Parsed[l].features
  /\ r.label = Parsed[l].label

\* how often the line occurs in the file
TimesInFile(l) == Cardinality({i \in 1..Len(file) : file[i] = l})

\* how often the record of the line was emitted in iteration e
TimesEmitted(l, e) ==
  Cardinality({j \in Block(Len(file), e) :
                 j <= Len(emitted) /\ RecordOf(emitted[j], l)})

StreamEnded ==
  epoch = config.num_epochs /\ Delivered = Len(file)

\* C12: the shuffle runs within each iteration of the repeat, so the
\* epochs do not blend: a run with num_epochs = k over a file of N lines
\* emits exactly k*N records, the e-th N records of the stream are every
\* line of the file exactly once, and a record of epoch e+1 comes only
\* after all N records of epoch e, with and without shuffling; without
\* shuffling the records keep the order of the file.
C12_EpochsDoNotBlend ==
  LET N == Len(file)
      k == config.num_epochs IN
  /\ Len(emitted) <= k * N
  /\ (epoch - 1) * N <= Len(emitted) /\ Len(emitted) <= epoch * N
  /\ StreamEnded <=> Len(emitted) = k * N
  /\ ~StreamEnded =>
       \/ ENABLED StartCall
       \/ \E p \in 1..Len(workers) : workers[p].pc \in {"decode", "equal"}
       \/ ENABLED Deliver
       \/ ENABLED NextEpoch
  /\ \A j \in 1..Len(emitted) : \E i \in 1..N : RecordOf(emitted[j], file[i])
  /\ \A e \in 1..k : \A l \in DataLines :
       /\ TimesEmitted(l, e) <= TimesInFile(l)
       /\ Len(emitted) >= e * N => TimesEmitted(l, e) = TimesInFile(l)
  /\ ~config.shuffle =>
       \A j \in 1..Len(emitted) :
         RecordOf(emitted[j], file[((j - 1) % N) + 1])

\* two epochs over two different lines, shuffled into different orders
C12_Witness ==
  /\ config.shuffle /\ config.num_epochs = 2
  /\ Len(file) = 2 /\ file[1] # file[2]
  /\ StreamEnded
  /\ Len(emitted) = 4
  /\ emitted[1] # emitted[3]
  /\ emitted[1] = emitted[4]

====
